---- MODULE Spec2Model ----
(***************************************************************************)
(* A model of cmd/web/main.go of the bed-and-breakfast web server: the    *)
(* startup sequence of main (template cache, config, handler repository,  *)
(* renderer, routes, listener) and the serving of requests through the    *)
(* default ServeMux to the Home and About handlers.                       *)
(*                                                                         *)
(* main.go is modelled statement by statement.  The packages it imports   *)
(* (pkg/config, pkg/handlers, pkg/render) are modelled from the written   *)
(* specification of the repository; the definitions concerned say so.     *)
(***************************************************************************)
EXTENDS Naturals, Sequences, FiniteSets

\* ------------------------------------------------------------------ bounds
\* Number of connections served concurrently (one goroutine each).
MaxConns == 2
\* The count of template-cache builds is kept up to this value (saturating).
MaxBuilds == 2

\* --------------------------------------------------------------- constants
\* const portNumber = ":8080"
portNumber == ":8080"

Conns == 1..MaxConns

\* Pages known to the template directory; the keys of the template cache.
Pages == {"home", "about"}

\* What a page template file on disk can be: well formed, well formed but
\* failing when executed, or malformed (fails to parse).
FileKinds == {"ok", "execfail", "malformed"}

\* URL paths, as the sequence of segments that follow each "/":
\* "/" is <<"">>, "/about" is <<"about">>, "/unknown-path" is <<"unknown-path">>.
PathRoot == <<"">>
PathAbout == <<"about">>
PathUnknown == <<"unknown-path">>
Paths == {PathRoot, PathAbout, PathUnknown}

\* The zero value of a map (a nil map): no keys.
NilMap == [p \in {} |-> "ok"]

\* The address of main's only config.AppConfig value, and the nil pointer.
AppPtr == "&app"
Nil == "nil"

\* The nil *handlers.Repository.
NilRepo == [ptr |-> "nil", App |-> "nil"]

\* No response written on the connection yet.
NoResp == [handler |-> "none", path |-> <<>>, status |-> 0, body |-> "", renderErr |-> FALSE]

VARIABLES
    disk,       \* the page template files: [Pages -> FileKinds]
    pc,         \* the statement main is about to execute
    tc,         \* main's local tc
    err,        \* main's local err
    app,        \* main's local app: [TemplateCache, UseCache]
    repo,       \* main's local repo
    Repo,       \* the package variable handlers.Repo
    renderApp,  \* the package variable of render set by NewTemplates
    mux,        \* http.DefaultServeMux: a set of [pattern, handler, recv]
    listener,   \* the listening socket: [state, addr]
    exit,       \* "running", "exit0" (main returned) or "exit1" (log.Fatal)
    out,        \* what the process has printed or logged
    builds,     \* how many times the template cache has been built
    conn        \* per connection: the request in progress and the last response

vars == <<disk, pc, tc, err, app, repo, Repo, renderApp, mux, listener, exit, out, builds, conn>>

\* The values the state takes.
TypeOK ==
    /\ disk \in [Pages -> FileKinds]
    /\ pc \in {"L18", "L19", "L23", "L24", "L26", "L27", "L29", "L31", "L32", "L34", "L35",
               "serving", "exited"}
    /\ tc \in {NilMap} \cup [Pages -> {"ok", "execfail"}]
    /\ err \in {Nil, "parse error"}
    /\ app.TemplateCache \in {NilMap} \cup [Pages -> {"ok", "execfail"}]
    /\ app.UseCache \in BOOLEAN
    /\ repo \in {NilRepo, [ptr |-> "&Repository", App |-> AppPtr]}
    /\ Repo \in {NilRepo, [ptr |-> "&Repository", App |-> AppPtr]}
    /\ renderApp \in {Nil, AppPtr}
    /\ \A e \in mux : e.pattern \in Paths /\ e.handler \in {"Home", "About"}
    /\ listener.state \in {"none", "listening", "failed", "closed"}
    /\ exit \in {"running", "exit0", "exit1"}
    /\ builds \in 0..MaxBuilds
    /\ \A c \in Conns :
          /\ conn[c].st \in {"idle", "handler", "render"}
          /\ conn[c].resp.status \in {0, 200, 404}

\* ------------------------------------------------------- imported packages
\* render.CreateTemplateCache: parses every page template; fails if one of
\* them does not parse.
CreateTemplateCache(d) ==
    IF \E p \in Pages : d[p] = "malformed"
    THEN [tc |-> NilMap, err |-> "parse error"]
    ELSE [tc |-> [p \in Pages |-> d[p]], err |-> Nil]

\* handlers.NewRepo: a new Repository holding the config it is given.
NewRepo(a) == [ptr |-> "&Repository", App |-> a]

\* handlers.NewHandlers: the value it installs in the package variable Repo.
NewHandlers(r) == r

\* render.NewTemplates: the value it installs as the renderer's config.
NewTemplates(a) == a

\* The template a handler renders.
PageOf(h) == IF h = "Home" THEN "home" ELSE "about"

\* Executing a parsed template with no data: the page, or a render error.
Execute(t, page) ==
    IF t = "ok"
    THEN [body |-> page, err |-> FALSE]
    ELSE [body |-> "", err |-> TRUE]

\* The status of a handler's response: no error branch exists, the output is
\* written with the success status whether the render failed or not.
HandlerStatus(renderFailed) == 200

\* ------------------------------------------------------------ the ServeMux
Front(s) == SubSeq(s, 1, Len(s) - 1)

\* A pattern ending in "/" names a subtree; any other pattern names one path.
IsSubtree(pattern) == pattern[Len(pattern)] = ""

PatternMatches(pattern, path) ==
    IF IsSubtree(pattern)
    THEN /\ Len(path) >= Len(pattern) - 1
         /\ SubSeq(path, 1, Len(pattern) - 1) = Front(pattern)
    ELSE path = pattern

\* The registered entries that match a path.
Matching(m, path) == {e \in m : PatternMatches(e.pattern, path)}

\* The most specific match wins: a single path over a subtree, a longer
\* subtree over a shorter one.
MoreSpecific(e, f) ==
    \/ ~IsSubtree(e.pattern) /\ IsSubtree(f.pattern)
    \/ IsSubtree(e.pattern) = IsSubtree(f.pattern) /\ Len(e.pattern) > Len(f.pattern)

MuxHandler(m, path) ==
    CHOOSE e \in Matching(m, path) : \A f \in Matching(m, path) \ {e} : MoreSpecific(e, f)

\* --------------------------------------------------------------------- Init
Init ==
    /\ disk \in [Pages -> FileKinds]
    /\ pc = "L18"
    /\ tc = NilMap
    /\ err = Nil
    /\ app = [TemplateCache |-> NilMap, UseCache |-> FALSE]
    /\ repo = NilRepo
    /\ Repo = NilRepo
    /\ renderApp = Nil
    /\ mux = {}
    /\ listener = [state |-> "none", addr |-> ""]
    /\ exit = "running"
    /\ out = {}
    /\ builds = 0
    /\ conn = [c \in Conns |-> [st |-> "idle", path |-> <<>>, handler |-> "none",
                                tcRead |-> NilMap, resp |-> NoResp]]

Bump(n) == IF n < MaxBuilds THEN n + 1 ELSE n

\* ------------------------------------------------------------- main's steps
\* tc, err := render.CreateTemplateCache()
MainCreateTemplateCache ==
    /\ exit = "running" /\ pc = "L18"
    /\ tc' = CreateTemplateCache(disk).tc
    /\ err' = CreateTemplateCache(disk).err
    /\ builds' = Bump(builds)
    /\ pc' = "L19"
    /\ UNCHANGED <<disk, app, repo, Repo, renderApp, mux, listener, exit, out, conn>>

\* if err != nil, without the check's body: the error is ignored.
MainCheckErrIgnored ==
    /\ exit = "running" /\ pc = "L19"
    /\ pc' = "L23"
    /\ UNCHANGED <<disk, tc, err, app, repo, Repo, renderApp, mux, listener, exit, out, builds, conn>>

\* if err != nil { log.Fatal("cannot create template cache ", err) }
MainCheckErr ==
    /\ exit = "running" /\ pc = "L19"
    /\ IF err # Nil
       THEN /\ out' = out \cup {<<"cannot create template cache ", err>>}
            /\ exit' = "exit1"
            /\ pc' = "exited"
       ELSE /\ pc' = "L23"
            /\ UNCHANGED <<out, exit>>
    /\ UNCHANGED <<disk, tc, err, app, repo, Repo, renderApp, mux, listener, builds, conn>>

\* The assignment left out: the config keeps its nil map.
MainAssignTemplateCacheSkipped ==
    /\ exit = "running" /\ pc = "L23"
    /\ pc' = "L24"
    /\ UNCHANGED <<disk, tc, err, app, repo, Repo, renderApp, mux, listener, exit, out, builds, conn>>

\* app.TemplateCache = tc
MainAssignTemplateCache ==
    /\ exit = "running" /\ pc = "L23"
    /\ app' = [app EXCEPT !.TemplateCache = tc]
    /\ pc' = "L24"
    /\ UNCHANGED <<disk, tc, err, repo, Repo, renderApp, mux, listener, exit, out, builds, conn>>

\* app.UseCache = false: the development configuration.
MainSetUseCacheFalse ==
    /\ exit = "running" /\ pc = "L24"
    /\ app' = [app EXCEPT !.UseCache = FALSE]
    /\ pc' = "L26"
    /\ UNCHANGED <<disk, tc, err, repo, Repo, renderApp, mux, listener, exit, out, builds, conn>>

\* app.UseCache = true
MainSetUseCache ==
    /\ exit = "running" /\ pc = "L24"
    /\ app' = [app EXCEPT !.UseCache = TRUE]
    /\ pc' = "L26"
    /\ UNCHANGED <<disk, tc, err, repo, Repo, renderApp, mux, listener, exit, out, builds, conn>>

\* repo := handlers.NewRepo(&app)
MainNewRepo ==
    /\ exit = "running" /\ pc = "L26"
    /\ repo' = NewRepo(AppPtr)
    /\ pc' = "L27"
    /\ UNCHANGED <<disk, tc, err, app, Repo, renderApp, mux, listener, exit, out, builds, conn>>

\* handlers.NewHandlers(repo)
MainNewHandlers ==
    /\ exit = "running" /\ pc = "L27"
    /\ Repo' = NewHandlers(repo)
    /\ pc' = "L29"
    /\ UNCHANGED <<disk, tc, err, app, repo, renderApp, mux, listener, exit, out, builds, conn>>

\* The call to render.NewTemplates left out.
MainNewTemplatesSkipped ==
    /\ exit = "running" /\ pc = "L29"
    /\ pc' = "L31"
    /\ UNCHANGED <<disk, tc, err, app, repo, Repo, renderApp, mux, listener, exit, out, builds, conn>>

\* render.NewTemplates(&app)
MainNewTemplates ==
    /\ exit = "running" /\ pc = "L29"
    /\ renderApp' = NewTemplates(AppPtr)
    /\ pc' = "L31"
    /\ UNCHANGED <<disk, tc, err, app, repo, Repo, mux, listener, exit, out, builds, conn>>

\* http.HandleFunc("/", handlers.Repo.Home): the method value binds the
\* receiver handlers.Repo as it is at this statement.
MainHandleHome ==
    /\ exit = "running" /\ pc = "L31"
    /\ mux' = mux \cup {[pattern |-> <<"">>, handler |-> "Home", recv |-> Repo]}
    /\ pc' = "L32"
    /\ UNCHANGED <<disk, tc, err, app, repo, Repo, renderApp, listener, exit, out, builds, conn>>

\* http.HandleFunc("/about", handlers.Repo.Home): the wrong handler.
MainHandleAboutWrongHandler ==
    /\ exit = "running" /\ pc = "L32"
    /\ mux' = mux \cup {[pattern |-> <<"about">>, handler |-> "Home", recv |-> Repo]}
    /\ pc' = "L34"
    /\ UNCHANGED <<disk, tc, err, app, repo, Repo, renderApp, listener, exit, out, builds, conn>>

\* The second route left out.
MainHandleAboutSkipped ==
    /\ exit = "running" /\ pc = "L32"
    /\ pc' = "L34"
    /\ UNCHANGED <<disk, tc, err, app, repo, Repo, renderApp, mux, listener, exit, out, builds, conn>>

\* http.HandleFunc("/about", handlers.Repo.About)
MainHandleAbout ==
    /\ exit = "running" /\ pc = "L32"
    /\ mux' = mux \cup {[pattern |-> <<"about">>, handler |-> "About", recv |-> Repo]}
    /\ pc' = "L34"
    /\ UNCHANGED <<disk, tc, err, app, repo, Repo, renderApp, listener, exit, out, builds, conn>>

\* fmt.Println("Starting application on port", portNumber)
MainPrintln ==
    /\ exit = "running" /\ pc = "L34"
    /\ out' = out \cup {<<"Starting application on port", portNumber>>}
    /\ pc' = "L35"
    /\ UNCHANGED <<disk, tc, err, app, repo, Repo, renderApp, mux, listener, exit, builds, conn>>

\* http.ListenAndServe(portNumber, nil): the port is bound and the server
\* serves DefaultServeMux, or the bind fails and the call returns its error,
\* which is the value of an expression statement and is dropped; main then
\* returns and the process ends with status 0.
MainListenAndServe ==
    /\ exit = "running" /\ pc = "L35"
    /\ \E bound \in BOOLEAN :
          IF bound
          THEN /\ listener' = [state |-> "listening", addr |-> portNumber]
               /\ pc' = "serving"
               /\ UNCHANGED exit
          ELSE /\ listener' = [state |-> "failed", addr |-> portNumber]
               /\ pc' = "exited"
               /\ exit' = "exit0"
    /\ UNCHANGED <<disk, tc, err, app, repo, Repo, renderApp, mux, out, builds, conn>>

\* log.Fatal(http.ListenAndServe(portNumber, nil)): the error is reported.
ListenAndServeReturnsFatal ==
    /\ exit = "running" /\ pc = "serving"
    /\ listener' = [listener EXCEPT !.state = "closed"]
    /\ out' = out \cup {<<"listen and serve", "fatal">>}
    /\ exit' = "exit1"
    /\ pc' = "exited"
    /\ UNCHANGED <<disk, tc, err, app, repo, Repo, renderApp, mux, builds, conn>>

\* http.ListenAndServe returns while serving (the listener failed): the
\* error is dropped, main returns and the process ends with status 0.
ListenAndServeReturns ==
    /\ exit = "running" /\ pc = "serving"
    /\ listener' = [listener EXCEPT !.state = "closed"]
    /\ exit' = "exit0"
    /\ pc' = "exited"
    /\ UNCHANGED <<disk, tc, err, app, repo, Repo, renderApp, mux, out, builds, conn>>

\* ------------------------------------------------------------------ serving
\* The server reads a request on a connection and the ServeMux dispatches it:
\* to the handler of the most specific matching pattern, or to NotFound (404)
\* when no pattern matches.
ServeHTTP(c, path) ==
    /\ exit = "running" /\ listener.state = "listening"
    /\ conn[c].st = "idle"
    /\ IF Matching(mux, path) = {}
       THEN conn' = [conn EXCEPT ![c].resp =
                        [handler |-> "NotFound", path |-> path, status |-> 404,
                         body |-> "404 page not found", renderErr |-> FALSE]]
       ELSE conn' = [conn EXCEPT ![c].st = "handler", ![c].path = path,
                                 ![c].handler = MuxHandler(mux, path).handler]
    /\ UNCHANGED <<disk, pc, tc, err, app, repo, Repo, renderApp, mux, listener, exit, out, builds>>

\* Home or About calls the renderer, which takes the template cache from the
\* config when UseCache is set and builds a new one otherwise.  With no
\* config installed the nil pointer is dereferenced: the handler panics and
\* the server closes the connection without a response.
HandlerGetCache(c) ==
    /\ exit = "running"
    /\ conn[c].st = "handler"
    /\ IF renderApp = Nil
       THEN /\ conn' = [conn EXCEPT ![c].st = "idle", ![c].resp =
                           [handler |-> conn[c].handler, path |-> conn[c].path,
                            status |-> 0, body |-> "", renderErr |-> TRUE]]
            /\ UNCHANGED builds
       ELSE IF app.UseCache
            THEN /\ conn' = [conn EXCEPT ![c].st = "render", ![c].tcRead = app.TemplateCache]
                 /\ UNCHANGED builds
            ELSE /\ conn' = [conn EXCEPT ![c].st = "render",
                                         ![c].tcRead = CreateTemplateCache(disk).tc]
                 /\ builds' = Bump(builds)
    /\ UNCHANGED <<disk, pc, tc, err, app, repo, Repo, renderApp, mux, listener, exit, out>>

\* The renderer looks the page up in the cache it took, executes it and
\* writes the output.  A missing page is fatal to the process.
RenderTemplate(c) ==
    /\ exit = "running"
    /\ conn[c].st = "render"
    /\ LET page == PageOf(conn[c].handler)
       IN  IF page \notin DOMAIN conn[c].tcRead
           THEN /\ out' = out \cup {<<"could not get template from cache", "fatal">>}
                /\ exit' = "exit1"
                /\ UNCHANGED conn
           ELSE LET r == Execute(conn[c].tcRead[page], page)
                IN  /\ conn' = [conn EXCEPT ![c].st = "idle", ![c].resp =
                                   [handler |-> conn[c].handler, path |-> conn[c].path,
                                    status |-> HandlerStatus(r.err), body |-> r.body,
                                    renderErr |-> r.err]]
                    /\ UNCHANGED <<out, exit>>
    /\ UNCHANGED <<disk, pc, tc, err, app, repo, Repo, renderApp, mux, listener, builds>>

\* A page template file is edited while the process runs.
EditTemplate(p, k) ==
    /\ exit = "running"
    /\ disk[p] # k
    /\ disk' = [disk EXCEPT ![p] = k]
    /\ UNCHANGED <<pc, tc, err, app, repo, Repo, renderApp, mux, listener, exit, out, builds, conn>>

Next ==
    \/ MainCreateTemplateCache
    \/ MainCheckErr
    \/ MainAssignTemplateCache
    \/ MainSetUseCache
    \/ MainNewRepo
    \/ MainNewHandlers
    \/ MainNewTemplates
    \/ MainHandleHome
    \/ MainHandleAbout
    \/ MainPrintln
    \/ MainListenAndServe
    \/ ListenAndServeReturns
    \/ \E c \in Conns, path \in Paths : ServeHTTP(c, path)
    \/ \E c \in Conns : HandlerGetCache(c)
    \/ \E c \in Conns : RenderTemplate(c)
    \/ \E p \in Pages, k \in FileKinds : EditTemplate(p, k)

Spec == Init /\ [][Next]_vars

\* ------------------------------------------------------------------ helpers
Serving == listener.state = "listening"

\* http.ListenAndServe has been called.
Started == listener.state # "none"

Patterns(m) == {e.pattern : e \in m}

\* The statements of main in the order of the source.
StartupOrder == <<"L18", "L19", "L23", "L24", "L26", "L27", "L29", "L31", "L32", "L34", "L35", "serving">>

Position(l) == CHOOSE i \in 1..Len(StartupOrder) : StartupOrder[i] = l

\* The statement at label l has been executed.
Passed(l) ==
    IF pc = "exited"
    THEN err = Nil \/ l = "L18"
    ELSE Position(pc) > Position(l)

Answered(c) == conn[c].resp # NoResp

\* ------------------------------------------------------------------- claims

\* C1: when CreateTemplateCache returns an error, main ends the process with
\* log.Fatal: no repository is created or installed, the renderer gets no
\* config, no route is registered, the listener is never started and no
\* request is ever accepted or answered.
C1_FatalBeforeServing ==
    err # Nil =>
        /\ pc \in {"L19", "exited"}
        /\ pc = "exited" => exit = "exit1" /\ <<"cannot create template cache ", "parse error">> \in out
        /\ repo = NilRepo /\ Repo = NilRepo /\ renderApp = Nil
        /\ mux = {}
        /\ listener.state = "none"
        /\ \A c \in Conns : conn[c].st = "idle" /\ ~Answered(c)

C1_Witness == err # Nil /\ exit = "exit1" /\ pc = "exited"

\* C2: a request for a path other than "/" and "/about" is answered with 404
\* and is never dispatched to Home or About.
C2_UnknownPathIs404 ==
    \A c \in Conns :
        /\ conn[c].st # "idle" /\ conn[c].path \notin {PathRoot, PathAbout}
              => conn[c].handler \notin {"Home", "About"}
        /\ Answered(c) /\ conn[c].resp.path \notin {PathRoot, PathAbout}
              => conn[c].resp.status = 404 /\ conn[c].resp.handler \notin {"Home", "About"}

C4_TwoStaticRoutes ==
    /\ [](/\ Patterns(mux) \subseteq {PathRoot, PathAbout}
          /\ Cardinality(mux) <= 2
          /\ Started => Patterns(mux) = {PathRoot, PathAbout} /\ Cardinality(mux) = 2)
    /\ [][Started => mux' = mux]_vars

C4_Witness ==
    /\ Serving
    /\ Patterns(mux) = {PathRoot, PathAbout}
    /\ \E c \in Conns : Answered(c) /\ conn[c].st = "handler"

\* C5: the template cache is built once, by main, and once ListenAndServe has
\* been called neither field of the config is written again: UseCache stays
\* true, TemplateCache stays the value built at startup, and every request,
\* however requests interleave, takes that same value.
C5_CacheBuiltOnce ==
    /\ [](/\ builds <= 1
          /\ Started => /\ builds = 1
                        /\ app = [TemplateCache |-> tc, UseCache |-> TRUE]
          /\ \A c \in Conns : conn[c].st = "render"
                => conn[c].tcRead = tc /\ conn[c].tcRead = app.TemplateCache)
    /\ [][Started => app' = app /\ tc' = tc /\ builds' = builds]_vars

\* Two requests hold the startup cache at once, after a template file changed.
C5_Witness ==
    /\ Serving
    /\ tc # NilMap /\ \E p \in Pages : disk[p] # tc[p]
    /\ \E c1, c2 \in Conns : c1 # c2 /\ conn[c1].st = "render" /\ conn[c2].st = "render"

\* C6: any two requests for "/" answered by one process get the same body:
\* on two connections in any order, and on one connection one after the other.
C6_HomeIdempotent ==
    /\ [](\A c1, c2 \in Conns :
             conn[c1].resp.path = PathRoot /\ conn[c2].resp.path = PathRoot
                => conn[c1].resp.body = conn[c2].resp.body)
    /\ [][\A c \in Conns :
             conn[c].resp.path = PathRoot /\ conn'[c].resp.path = PathRoot
                => conn'[c].resp.body = conn[c].resp.body]_vars

\* Two requests for "/" answered alike although the home template on disk
\* changed, with a request for "/about" in progress.
C6_Witness ==
    /\ tc # NilMap /\ disk["home"] # tc["home"]
    /\ \E c1, c2 \in Conns :
          /\ c1 # c2
          /\ conn[c1].resp.path = PathRoot /\ conn[c2].resp.path = PathRoot
          /\ conn[c1].resp.body = "home" /\ conn[c2].resp.body = "home"
          /\ conn[c2].st = "render" /\ conn[c2].path = PathAbout

\* C7: once the cache is assigned after a successful build its keys are
\* exactly the home and about pages, every lookup by Home or About uses a key
\* of the cache it looks in, and the fatal missing-template exit never happens.
C7_LookupsHit ==
    /\ Passed("L23") /\ err = Nil => DOMAIN app.TemplateCache = {"home", "about"}
    /\ \A c \in Conns : conn[c].st = "render"
          => PageOf(conn[c].handler) \in DOMAIN conn[c].tcRead
    /\ <<"could not get template from cache", "fatal">> \notin out

C7_Witness ==
    \E c1, c2 \in Conns :
        /\ conn[c1].st = "render" /\ conn[c1].handler = "About"
        /\ conn[c2].st = "render" /\ conn[c2].handler = "Home"
        /\ DOMAIN conn[c1].tcRead = {"home", "about"}

\* C8: a request whose render failed is answered with a 500-class status.
C8_RenderFailureIs500 ==
    \A c \in Conns :
        Answered(c) /\ conn[c].resp.renderErr => conn[c].resp.status \in 500..599

\* C9: main's steps take effect in the order of the source, each only after
\* the ones before it: config fields, repository created from the config and
\* installed, the same config given to the renderer, both routes (bound to the
\* installed repository), then the listener; and a request is accepted or
\* answered only after all of them.
C9_StartupOrder ==
    /\ Passed("L23") => app.TemplateCache = tc
    /\ app.UseCache <=> Passed("L24")
    /\ repo = NewRepo(AppPtr) <=> Passed("L26")
    /\ repo # NewRepo(AppPtr) => repo = NilRepo
    /\ Repo = NewRepo(AppPtr) <=> Passed("L27")
    /\ Repo # NewRepo(AppPtr) => Repo = NilRepo
    /\ renderApp = AppPtr <=> Passed("L29")
    /\ PathRoot \in Patterns(mux) <=> Passed("L31")
    /\ PathAbout \in Patterns(mux) <=> Passed("L32")
    /\ \A e \in mux : e.recv = NewRepo(AppPtr)
    /\ <<"Starting application on port", portNumber>> \in out <=> Passed("L34")
    /\ Started <=> Passed("L35")
    /\ \A c \in Conns : conn[c].st # "idle" \/ Answered(c)
          => /\ Passed("L35")
             /\ Repo # NilRepo /\ renderApp # Nil
             /\ Cardinality(mux) = 2

C9_Witness ==
    /\ pc = "serving"
    /\ \E c1, c2 \in Conns : conn[c1].st = "handler" /\ Answered(c2)

\* C10: while the listener serves, the process ends only by ListenAndServe
\* returning, and then main returns with status 0 and nothing is logged; a
\* failed bind ends the same way; the only fatal exit is the template-cache
\* error of startup.
C10_OnlyReturnEndsServing ==
    /\ [][Serving =>
            \/ listener' = listener /\ exit' = exit /\ pc' = pc /\ out' = out
            \/ /\ listener' = [state |-> "closed", addr |-> portNumber]
               /\ exit' = "exit0" /\ pc' = "exited" /\ out' = out]_vars
    /\ [](listener.state \in {"failed", "closed"} => exit = "exit0" /\ pc = "exited")
    /\ [](Started => out = {<<"Starting application on port", portNumber>>})
    /\ [](exit = "exit1" => err # Nil /\ ~Started)

C10_Witness ==
    /\ listener.state = "closed"
    /\ exit = "exit0"
    /\ \E c \in Conns : Answered(c)

====
